---- MODULE Spec2Model ----
(***************************************************************************)
(* Model of generar_mallas_V-2.2.py: colour-bag expansion, the assignment  *)
(* of colours to areas, the CSS variables written into the page and their  *)
(* lookup by the emitted script; and the emitted planner: the courses of   *)
(* the page, the approved courses it keeps in localStorage, its click and  *)
(* reset handlers.                                                          *)
(*                                                                         *)
(* Representation.                                                          *)
(*  - Text is a TLA+ string; a character is a one-character string.  The   *)
(*    alphabet is the ASCII subset of the table ord (code points).         *)
(*  - Angles are integers in ticks of 0.004 degree (90000 ticks = 360      *)
(*    degrees): 197.0 and 137.508 degrees are whole numbers of ticks, so   *)
(*    the hue of every generated colour is exact.  Saturation is in        *)
(*    tenths and lightness in hundredths.                                  *)
(*  - hash() of a str is keyed by a per-process random key; random.Random  *)
(*    is a deterministic generator of its seed.  Both are modelled by      *)
(*    small 14-bit generators: only "a function of (key, text)" and "a     *)
(*    function of the seed and of the number of draws" are relied upon.    *)
(***************************************************************************)
EXTENDS Integers, Sequences, FiniteSets, TLC

VARIABLES
    COLOR_BAG,  \* the module-level list of line 28
    last,       \* the latest call, with its arguments and its result
    prev,       \* the call before it
    COURSES,    \* the emitted page's constant COURSES (line 330)
    localStorage, \* the set stored under 'progress:'+PROGRAM_CODE (lines 334-335)
    classList,  \* the state class of each .course element, set by update()
    tests       \* the line runTests() logs when the page loads

color_vars == <<COLOR_BAG, last, prev>>
page_vars == <<COURSES, localStorage, classList, tests>>
vars == <<COLOR_BAG, last, prev, COURSES, localStorage, classList, tests>>

\* ------------------------------------------------------------------ bounds
\* size of the large category collection ("X1" .. "X<LargeK>")
LargeK == 1238
\* largest explicit seed drawn
MaxSeed == 1
\* hash keys 0 .. MaxHashKey of the processes (runs of the program)
MaxHashKey == 1
\* OS entropy values 0 .. MaxEntropy for an unseeded random.Random()
MaxEntropy == 1
\* rows of the largest sheet whose page is explored
MaxCourses == 7

\* -------------------------------------------------------------------- text
\* code points (ord) of the characters of the model's alphabet
ord ==
    (" " :> 32) @@ ("," :> 44) @@ ("-" :> 45) @@ ("." :> 46) @@ ("0" :> 48) @@ ("1" :> 49) @@
    ("2" :> 50) @@ ("3" :> 51) @@ ("4" :> 52) @@ ("5" :> 53) @@ ("6" :> 54) @@ ("7" :> 55) @@
    ("8" :> 56) @@ ("9" :> 57) @@ ("A" :> 65) @@ ("B" :> 66) @@ ("C" :> 67) @@ ("D" :> 68) @@
    ("E" :> 69) @@ ("F" :> 70) @@ ("G" :> 71) @@ ("H" :> 72) @@ ("I" :> 73) @@ ("J" :> 74) @@
    ("K" :> 75) @@ ("L" :> 76) @@ ("M" :> 77) @@ ("N" :> 78) @@ ("O" :> 79) @@ ("P" :> 80) @@
    ("Q" :> 81) @@ ("R" :> 82) @@ ("S" :> 83) @@ ("T" :> 84) @@ ("U" :> 85) @@ ("V" :> 86) @@
    ("W" :> 87) @@ ("X" :> 88) @@ ("Y" :> 89) @@ ("Z" :> 90) @@ ("_" :> 95) @@ ("a" :> 97) @@
    ("b" :> 98) @@ ("c" :> 99) @@ ("d" :> 100) @@ ("e" :> 101) @@ ("f" :> 102) @@ ("g" :> 103) @@
    ("h" :> 104) @@ ("i" :> 105) @@ ("j" :> 106) @@ ("k" :> 107) @@ ("l" :> 108) @@ ("m" :> 109) @@
    ("n" :> 110) @@ ("o" :> 111) @@ ("p" :> 112) @@ ("q" :> 113) @@ ("r" :> 114) @@ ("s" :> 115) @@
    ("t" :> 116) @@ ("u" :> 117) @@ ("v" :> 118) @@ ("w" :> 119) @@ ("x" :> 120) @@ ("y" :> 121) @@
    ("z" :> 122)

\* the upper-case mapping of the alphabet's cased characters
UpperCase ==
    ("a" :> "A") @@ ("b" :> "B") @@ ("c" :> "C") @@ ("d" :> "D") @@ ("e" :> "E") @@ ("f" :> "F") @@
    ("g" :> "G") @@ ("h" :> "H") @@ ("i" :> "I") @@ ("j" :> "J") @@ ("k" :> "K") @@ ("l" :> "L") @@
    ("m" :> "M") @@ ("n" :> "N") @@ ("o" :> "O") @@ ("p" :> "P") @@ ("q" :> "Q") @@ ("r" :> "R") @@
    ("s" :> "S") @@ ("t" :> "T") @@ ("u" :> "U") @@ ("v" :> "V") @@ ("w" :> "W") @@ ("x" :> "X") @@
    ("y" :> "Y") @@ ("z" :> "Z")

\* the i-th character of s
CharAt(s, i) == SubSeq(s, i, i)

Min2(a, b) == IF a <= b THEN a ELSE b
Max2(a, b) == IF a >= b THEN a ELSE b

\* str.upper() / String.prototype.toUpperCase(), character by character
RECURSIVE upperFrom(_, _)
upperFrom(s, i) ==
    IF i > Len(s) THEN ""
    ELSE LET c == CharAt(s, i)
         IN (IF c \in DOMAIN UpperCase THEN UpperCase[c] ELSE c) \o upperFrom(s, i + 1)

upper(s) == upperFrom(s, 1)

\* str.strip(): drop leading and trailing white space
RECURSIVE lstripFrom(_, _)
lstripFrom(s, i) ==
    IF i > Len(s) THEN ""
    ELSE IF CharAt(s, i) = " " THEN lstripFrom(s, i + 1)
    ELSE SubSeq(s, i, Len(s))

RECURSIVE rstripTo(_, _)
rstripTo(s, j) ==
    IF j < 1 THEN ""
    ELSE IF CharAt(s, j) = " " THEN rstripTo(s, j - 1)
    ELSE SubSeq(s, 1, j)

strip(s) == LET l == lstripFrom(s, 1) IN rstripTo(l, Len(l))

\* the class [A-Z0-9_-] of the regular expression of line 158
IsSafeChar(c) ==
    \/ ord[c] \in 65..90
    \/ ord[c] \in 48..57
    \/ c = "_"
    \/ c = "-"

\* re.sub(r'[^A-Z0-9_-]', '_', s)
RECURSIVE sanitizeFrom(_, _)
sanitizeFrom(s, i) ==
    IF i > Len(s) THEN ""
    ELSE (IF IsSafeChar(CharAt(s, i)) THEN CharAt(s, i) ELSE "_") \o sanitizeFrom(s, i + 1)

re_sub(s) == sanitizeFrom(s, 1)

\* s < t for str: lexicographic by code point
RECURSIVE lessFrom(_, _, _)
lessFrom(s, t, i) ==
    IF i > Len(t) THEN FALSE
    ELSE IF i > Len(s) THEN TRUE
    ELSE IF ord[CharAt(s, i)] < ord[CharAt(t, i)] THEN TRUE
    ELSE IF ord[CharAt(s, i)] > ord[CharAt(t, i)] THEN FALSE
    ELSE lessFrom(s, t, i + 1)

StrLess(s, t) == lessFrom(s, t, 1)

\* decimal text of a natural number (str(n))
DecDigit == <<"0", "1", "2", "3", "4", "5", "6", "7", "8", "9">>

RECURSIVE str(_)
str(n) == IF n < 10 THEN DecDigit[n + 1] ELSE str(n \div 10) \o DecDigit[(n % 10) + 1]

\* ----------------------------------------------------------------- colours
\* Bolsa base de 15 colores: the value the module-level list is created with
BaseColors == <<
    "#2563eb", "#a855f7", "#06b6d4", "#ef4444", "#10b981",
    "#f97316", "#84cc16", "#eab308", "#14b8a6", "#3b82f6",
    "#ec4899", "#22d3ee", "#f59e0b", "#34d399", "#9333ea" >>

\* ticks in a full turn: 360 degrees at 0.004 degree per tick
Turn == 90000

HexDigit == <<"0", "1", "2", "3", "4", "5", "6", "7", "8", "9", "a", "b", "c", "d", "e", "f">>

\* format(v, "02x"): lower-case hexadecimal, at least two digits
RECURSIVE hexdigits(_)
hexdigits(v) == IF v < 16 THEN HexDigit[v + 1] ELSE hexdigits(v \div 16) \o HexDigit[(v % 16) + 1]

fmt02x(v) == IF v < 16 THEN "0" \o hexdigits(v) ELSE hexdigits(v)

\* round(num / den) as Python 3 rounds: to nearest, ties to even (den > 0, num >= 0)
round(num, den) ==
    LET q == num \div den
        r == num % den
    IN IF 2 * r > den THEN q + 1
       ELSE IF 2 * r = den /\ q % 2 = 1 THEN q + 1
       ELSE q

\* f(n) of hsl_to_hex: one channel, 0..255.  k is in 1/7500 (12 = Turn),
\* a in 1/1000, so 255*c = 17 * (75000*l - a*t) / 500000.
hsl_channel(n, hh, s, l) ==
    LET k == (7500 * n + hh) % Turn
        a == s * Min2(l, 100 - l)
        t == Max2(-7500, Min2(Min2(k - 22500, 67500 - k), 7500))
    IN round(17 * (75000 * l - a * t), 500000)

\* hsl_to_hex(h, s, l): h in ticks, s in tenths, l in hundredths
hsl_to_hex(h, s, l) ==
    LET hh == h % Turn
    IN "#" \o fmt02x(hsl_channel(0, hh, s, l))
           \o fmt02x(hsl_channel(8, hh, s, l))
           \o fmt02x(hsl_channel(4, hh, s, l))

\* golden angle 137.508 degrees, in ticks
phi == 34377
\* 197.0 degrees, in ticks
base_h == 49250
\* saturation 0.70, in tenths
base_s == 7
\* lightness steps 0.55, 0.50, 0.60, 0.45, in hundredths
l_steps == <<55, 50, 60, 45>>

\* ---------------------------------------------------- hash and random.Random
\* seed=None; an explicit seed s is <<s>>
None == <<>>

\* width of the modelled generators
Modulus == 2^14

\* one step of the generator behind random.Random
rng_next(st) == (3125 * st + 6571) % Modulus

\* a generator that takes its state from OS entropy whatever the seed
Random_ignoring_seed(seed, entropy) == rng_next((entropy + 8191) % Modulus)

\* random.Random(seed): a generator whose state is a function of the seed;
\* random.Random(): a generator whose state comes from OS entropy
Random(seed, entropy) ==
    IF seed # None THEN rng_next(seed[1] % Modulus) ELSE rng_next((entropy + 8191) % Modulus)

\* rng.uniform(0, 360): one draw, scaled to ticks; the generator moves to rng_next(st)
uniform(st) == (rng_next(st) * Turn) \div Modulus

\* rng._randbelow(n): one draw, scaled to 0..n-1
randbelow(st, n) == (rng_next(st) * n) \div Modulus

\* hash(s) for a str: a function of the process's hash key and of the text, signed
RECURSIVE hashFrom(_, _, _)
hashFrom(h, s, i) ==
    IF i > Len(s) THEN h
    ELSE hashFrom((h * 33 + ord[CharAt(s, i)]) % Modulus, s, i + 1)

hash(hashkey, s) == hashFrom((hashkey * 7919 + 5381) % Modulus, s, 1) - (Modulus \div 2)

abs(x) == IF x < 0 THEN -x ELSE x

\* -------------------------------------------------------- expand_color_bag
\* hue of the i-th additional colour (line 113)
hue(start_h, i) == (start_h + phi * i) % Turn

\* an expansion that starts from an empty bag instead of a copy of COLOR_BAG
expand_color_bag_from_empty(min_size, randomize, seed) ==
    LET bag == <<>>
    IN IF Len(bag) >= min_size THEN bag
       ELSE LET has_rng == randomize /\ seed # None
                start_h == IF has_rng THEN uniform(Random(seed, 0)) ELSE base_h
                needed == min_size - Len(bag)
            IN bag \o [k \in 1..needed |->
                          hsl_to_hex(hue(start_h, k - 1), base_s,
                                     l_steps[((k - 1) % Len(l_steps)) + 1])]

\* an expansion that spreads the needed hues evenly over the circle
expand_color_bag_even_hues(min_size, randomize, seed) ==
    LET bag == COLOR_BAG
    IN IF Len(bag) >= min_size THEN bag
       ELSE LET has_rng == randomize /\ seed # None
                start_h == IF has_rng THEN uniform(Random(seed, 0)) ELSE base_h
                needed == min_size - Len(bag)
            IN bag \o [k \in 1..needed |->
                          hsl_to_hex((start_h + (Turn \div needed) * (k - 1)) % Turn, base_s,
                                     l_steps[((k - 1) % Len(l_steps)) + 1])]

\* A list value is [object, items]; object names the list in the heap.
\* bag = COLOR_BAG: the working list is the module-level list itself
no_copy(xs) == [object |-> "COLOR_BAG", items |-> xs]

\* bag = COLOR_BAG[:] (line 97): a new list object holding the items of xs.
slice_copy(xs) == [object |-> "bag", items |-> xs]

\* The items of the module-level list once a call has appended to (line 118)
\* and shuffled (line 133) its working list, whose final items are bag: the
\* in-place operations reach COLOR_BAG only if the working list is that object.
COLOR_BAG_after(bag) ==
    IF slice_copy(COLOR_BAG).object = "COLOR_BAG" THEN bag ELSE COLOR_BAG

expand_color_bag(min_size, randomize, seed) ==
    LET bag == slice_copy(COLOR_BAG).items
    IN IF Len(bag) >= min_size THEN bag
       ELSE LET has_rng == randomize /\ seed # None
                start_h == IF has_rng THEN uniform(Random(seed, 0)) ELSE base_h
                needed == min_size - Len(bag)
            IN bag \o [k \in 1..needed |->
                          hsl_to_hex(hue(start_h, k - 1), base_s,
                                     l_steps[((k - 1) % Len(l_steps)) + 1])]

\* ------------------------------------------------- assign_colors_to_areas
\* number of elements of the sorted sequence acc that are < x
RECURSIVE lowerBound(_, _, _, _)
lowerBound(acc, x, lo, hi) ==
    IF lo >= hi THEN lo
    ELSE LET mid == (lo + hi + 1) \div 2
         IN IF StrLess(acc[mid], x) THEN lowerBound(acc, x, mid, hi)
            ELSE lowerBound(acc, x, lo, mid - 1)

\* acc with x put at its place, unless acc holds x already
insertSorted(acc, x) ==
    LET p == lowerBound(acc, x, 0, Len(acc))
    IN IF p < Len(acc) /\ acc[p + 1] = x THEN acc
       ELSE SubSeq(acc, 1, p) \o <<x>> \o SubSeq(acc, p + 1, Len(acc))

\* a or "OTRO"
orOTRO(a) == IF a = "" THEN "OTRO" ELSE a

RECURSIVE sortedFrom(_, _, _, _)
sortedFrom(xs, lo, hi, acc) ==
    IF lo > hi THEN acc
    ELSE IF lo = hi THEN insertSorted(acc, orOTRO(xs[lo]))
    ELSE LET mid == (lo + hi) \div 2
             left == sortedFrom(xs, lo, mid, acc)
         IN IF Len(left) >= 0 THEN sortedFrom(xs, mid + 1, hi, left) ELSE left

\* the distinct labels in the order of their first occurrence, not sorted
RECURSIVE distinctFrom(_, _, _, _)
distinctFrom(xs, lo, hi, acc) ==
    IF lo > hi THEN acc
    ELSE IF lo = hi
         THEN (IF \E i \in 1..Len(acc) : acc[i] = orOTRO(xs[lo]) THEN acc
               ELSE Append(acc, orOTRO(xs[lo])))
    ELSE LET mid == (lo + hi) \div 2
             left == distinctFrom(xs, lo, mid, acc)
         IN IF Len(left) >= 0 THEN distinctFrom(xs, mid + 1, hi, left) ELSE left

sorted_set_first_seen(xs) == distinctFrom(xs, 1, Len(xs), <<>>)

\* sorted(set(a or "OTRO" for a in areas))
sorted_set(xs) == sortedFrom(xs, 1, Len(xs), <<>>)

\* rng.shuffle(bag): for i in reversed(range(1, len(x))): j = randbelow(i+1); swap.
\* st = [rng, bag]; positions are 1-based here, so p = i + 1 runs from hi down to lo.
shuffle_step(st, p) ==
    LET j == randbelow(st.rng, p) + 1
    IN [rng |-> rng_next(st.rng),
        bag |-> [st.bag EXCEPT ![p] = st.bag[j], ![j] = st.bag[p]]]

RECURSIVE shuffleLoop(_, _, _)
shuffleLoop(st, lo, hi) ==
    IF lo > hi THEN st
    ELSE IF lo = hi THEN shuffle_step(st, lo)
    ELSE LET mid == (lo + hi) \div 2
             upper_part == shuffleLoop(st, mid + 1, hi)
         IN IF upper_part.rng >= 0 THEN shuffleLoop(upper_part, lo, mid) ELSE upper_part

shuffle(rng, bag) == shuffleLoop([rng |-> rng, bag |-> bag], 2, Len(bag)).bag

\* the inner loop of lines 142-147: the first step in lo..hi whose colour is
\* not used yet, or -1
RECURSIVE firstFree(_, _, _, _, _)
firstFree(bag, used, idx, lo, hi) ==
    IF lo > hi THEN -1
    ELSE IF lo = hi
         THEN (IF bag[((idx + lo) % Len(bag)) + 1] \notin used THEN lo ELSE -1)
    ELSE LET mid == (lo + hi) \div 2
             l == firstFree(bag, used, idx, lo, mid)
         IN IF l # -1 THEN l ELSE firstFree(bag, used, idx, mid + 1, hi)

\* start index of the probe (line 141)
start_index(hashkey, a, n) == abs(hash(hashkey, upper(a))) % n

\* one iteration of "for a in areas" of lines 140-147; st = [assigned, used]
probe_step(st, bag, hashkey, a) ==
    LET idx == start_index(hashkey, a, Len(bag))
        step == firstFree(bag, st.used, idx, 0, Len(bag) - 1)
    IN IF step = -1 THEN st
       ELSE LET c == bag[((idx + step) % Len(bag)) + 1]
            IN [assigned |-> (a :> c) @@ st.assigned, used |-> st.used \cup {c}]

RECURSIVE probeLoop(_, _, _, _, _, _)
probeLoop(st, bag, hashkey, areas, lo, hi) ==
    IF lo > hi THEN st
    ELSE IF lo = hi THEN probe_step(st, bag, hashkey, areas[lo])
    ELSE LET mid == (lo + hi) \div 2
             left == probeLoop(st, bag, hashkey, areas, lo, mid)
         IN IF Cardinality(left.used) >= 0
            THEN probeLoop(left, bag, hashkey, areas, mid + 1, hi)
            ELSE left

\* the CSS variable of an area (line 158)
var_name(a) == "--AREA-" \o re_sub(upper(a))

\* assign_colors_to_areas(areas, randomize, seed) in a process whose hash key
\* is hashkey and whose OS entropy (for an unseeded generator) is entropy.
\* The result is [raised, pairs, areas, bag]: raised = "KeyError" when line 159
\* finds an area without a colour; areas and bag are the locals of these names.
assign_colors_to_areas(areas0, randomize, seed, hashkey, entropy) ==
    LET areas == sorted_set(areas0)
        bag0 == expand_color_bag(Len(areas), randomize, seed)
        bag == IF randomize THEN shuffle(Random(seed, entropy), bag0) ELSE bag0
        assigned ==
            IF ~randomize
            THEN probeLoop([assigned |-> <<>>, used |-> {}], bag, hashkey,
                           areas, 1, Len(areas)).assigned
            ELSE [i \in 1..Len(areas) |-> bag[i]]
        color(i) == IF randomize THEN assigned[i] ELSE assigned[areas[i]]
        missing == ~randomize /\ \E i \in 1..Len(areas) : areas[i] \notin DOMAIN assigned
    IN IF missing THEN [raised |-> "KeyError", pairs |-> <<>>, areas |-> areas, bag |-> bag]
       ELSE [raised |-> "",
             pairs |-> [i \in 1..Len(areas) |-> <<var_name(areas[i]), color(i)>>] \o <<>>,
             areas |-> areas, bag |-> bag]

\* ------------------------------------------- build_courses and the page
\* area = str(r["AREA"]).strip() or "OTRO" (line 175), for every row
course_areas(cells) == [i \in 1..Len(cells) |-> orOTRO(strip(cells[i]))] \o <<>>

\* the value of --OTRO in the template (line 213)
OTRO_COLOR == "#9ca3af"

\* getPropertyValue(v) on the :root rule holding "var:col;" for every pair of
\* area_vars, in order (line 199): the last declaration of v wins, "" if none
getPropertyValue(area_vars, v) ==
    LET hits == {i \in 1..Len(area_vars) : area_vars[i][1] = v}
    IN IF hits = {} THEN ""
       ELSE area_vars[CHOOSE i \in hits : \A j \in hits : j <= i][2]

\* the name colorForArea looks up (line 337)
js_var(a) == "--AREA-" \o upper(orOTRO(a))

\* colorForArea(a) of the emitted script (lines 336-340)
colorForArea(area_vars, a) ==
    LET val == getPropertyValue(area_vars, js_var(a))
    IN IF val # "" THEN val ELSE OTRO_COLOR

\* ------------------------------------------------------------------ inputs
\* the demo list of the self test (lines 551 and 618)
demo == <<"CDAT", "CBAS", "ISCO", "ECON", "CHUL", "CHUM", "IIND", "AEMP", "ECOU",
          "OTRO", "X1", "X2", "X3", "X4", "X5", "X6", "X7">>

\* collections of labels passed to assign_colors_to_areas
AreaInputs ==
    { <<>>,
      <<"CDAT", "CBAS", "OTRO">>,
      <<"OTRO", "CDAT", "CBAS", "CDAT">>,
      demo }

\* AREA columns of a sheet, one cell per course row
CellInputs ==
    { <<"Econ", "ECON ", " econ", "">>,
      <<"CIENCIAS BASICAS", "A.B", "A,B", "CBAS", "CBAS">> }

\* sizes asked of expand_color_bag
SizeInputs == {-1, 15, 17, 20}

\* the large collection, of the self test's kind: "X1", "X2", ...
LargeAreas == [i \in 1..LargeK |-> "X" \o str(i)] \o <<>>

Seeds == {None} \cup {<<s>> : s \in 1..MaxSeed}
\* the command line: --randomize-colors and --seed, the seed only with the flag
Modes == {[randomize |-> FALSE, seed |-> None]} \cup
         {[randomize |-> TRUE, seed |-> s] : s \in Seeds}
\* the hash key of a process: str hashes are keyed per run of the program
HashKeys == 0..MaxHashKey
\* the key is read by a deterministic call only (line 141)
KeyDraws(mode) == IF mode.randomize THEN {0} ELSE HashKeys
Entropies == 0..MaxEntropy
\* OS entropy is read by a randomized call only (line 132)
EntropyDraws(mode) == IF mode.randomize THEN Entropies ELSE {0}

\* ------------------------------------------------------------------- state
NoCall ==
    [fn |-> "none", cells |-> <<>>, areas |-> <<>>, min_size |-> 0, randomize |-> FALSE,
     seed |-> None, hashkey |-> 0, raised |-> "", pairs |-> <<>>, sorted |-> <<>>,
     bag |-> <<>>]

Init ==
    /\ COLOR_BAG = BaseColors
    /\ last = NoCall
    /\ prev = NoCall
    /\ COURSES = <<>>
    /\ localStorage = {}
    /\ classList = <<>>
    /\ tests = ""

\* the record of a call of assign_colors_to_areas and of its result
AssignCall(fn, cells, areas, randomize, seed, hashkey, entropy) ==
    LET r == assign_colors_to_areas(areas, randomize, seed, hashkey, entropy)
    IN [fn |-> fn, cells |-> cells, areas |-> areas, min_size |-> 0,
        randomize |-> randomize, seed |-> seed, hashkey |-> hashkey,
        raised |-> r.raised, pairs |-> r.pairs, sorted |-> r.areas, bag |-> r.bag]

\* assign_colors_to_areas(areas, randomize, seed), called directly, in a
\* process whose hash key is hashkey
CallAssign(areas, randomize, seed, hashkey, entropy) ==
    /\ last' = AssignCall("assign", <<>>, areas, randomize, seed, hashkey, entropy)
    /\ prev' = last
    /\ COLOR_BAG' = COLOR_BAG_after(last'.bag)
    /\ UNCHANGED page_vars

\* write_program_html for the courses build_courses makes of a sheet: the
\* page declares area_vars and lists the courses with their areas
WriteProgram(cells, randomize, seed, hashkey, entropy) ==
    /\ last' = AssignCall("write", cells, course_areas(cells), randomize, seed,
                          hashkey, entropy)
    /\ prev' = last
    /\ COLOR_BAG' = COLOR_BAG_after(last'.bag)
    /\ UNCHANGED page_vars

\* expand_color_bag(min_size, randomize, seed), called directly
CallExpand(min_size, randomize, seed) ==
    /\ last' = [NoCall EXCEPT !.fn = "expand", !.min_size = min_size,
                              !.randomize = randomize, !.seed = seed,
                              !.bag = expand_color_bag(min_size, randomize, seed)]
    /\ prev' = last
    /\ COLOR_BAG' = COLOR_BAG_after(last'.bag)
    /\ UNCHANGED page_vars

\* The large collection is explored as the first call of a history only, in
\* deterministic mode and with seed 1; no call reads last or prev, so its
\* result is the same at any later point.
AssignLarge(randomize, hashkey) ==
    /\ last = NoCall
    /\ CallAssign(LargeAreas, randomize, <<1>>, hashkey, 0)

ExpandLarge(randomize) ==
    /\ last = NoCall
    /\ CallExpand(LargeK, randomize, <<1>>)

Next ==
    \/ \E areas \in AreaInputs, mode \in Modes :
          \E hashkey \in KeyDraws(mode), entropy \in EntropyDraws(mode) :
             CallAssign(areas, mode.randomize, mode.seed, hashkey, entropy)
    \/ \E cells \in CellInputs, mode \in Modes :
          \E hashkey \in KeyDraws(mode), entropy \in EntropyDraws(mode) :
             WriteProgram(cells, mode.randomize, mode.seed, hashkey, entropy)
    \/ \E min_size \in SizeInputs, mode \in Modes :
          CallExpand(min_size, mode.randomize, mode.seed)
    \/ \E mode \in {m \in Modes : m.seed = None} : \E hashkey \in KeyDraws(mode) :
          AssignLarge(mode.randomize, hashkey)
    \/ \E randomize \in BOOLEAN : ExpandLarge(randomize)

Spec == Init /\ [][Next]_vars

\* ------------------------------------------------------------- properties
IsAssign(c) == c.fn \in {"assign", "write"}

SetOf(xs) == {xs[i] : i \in 1..Len(xs)}

\* the distinct categories assign_colors_to_areas tells apart
Categories(areas) == {orOTRO(areas[i]) : i \in 1..Len(areas)}

\* the colours of a list of (identifier, colour) pairs
Colors(pairs) == {pairs[i][2] : i \in 1..Len(pairs)}

IsPrefix(xs, ys) == Len(xs) <= Len(ys) /\ SubSeq(ys, 1, Len(xs)) = xs

\* two calls of assign_colors_to_areas on record
TwoAssigns == IsAssign(prev) /\ IsAssign(last)

\* C1: a call with K distinct categories returns K pairs whose colours are
\* pairwise distinct, in both modes
C1_Injective ==
    IsAssign(last) =>
        LET K == Cardinality(Categories(last.areas))
        IN /\ last.raised = ""
           /\ Len(last.pairs) = K
           /\ Cardinality(Colors(last.pairs)) = K

\* C2: with the same labels and the same explicit seed, two randomized calls
\* of assign_colors_to_areas return the same pairs, and two randomized calls
\* of expand_color_bag with the same size and seed return the same bag
C2_SeededReproducible ==
    /\ ( /\ TwoAssigns
         /\ prev.randomize /\ last.randomize
         /\ last.seed # None /\ prev.seed = last.seed
         /\ prev.areas = last.areas )
       => (prev.raised = last.raised /\ prev.pairs = last.pairs)
    /\ ( /\ prev.fn = "expand" /\ last.fn = "expand"
         /\ prev.randomize /\ last.randomize
         /\ last.seed # None /\ prev.seed = last.seed
         /\ prev.min_size = last.min_size )
       => prev.bag = last.bag

\* two seeded calls on the self test's list, whose bag is expanded and shuffled
C2_Witness ==
    /\ TwoAssigns
    /\ prev.randomize /\ last.randomize
    /\ last.seed # None /\ prev.seed = last.seed
    /\ prev.areas = demo /\ last.areas = demo
    /\ Len(last.pairs) = Len(demo)

\* C3: in deterministic mode and under one hash key, two calls whose lists
\* hold the same labels, in any order and with any duplication, return the
\* same pairs
C3_OrderIndependent ==
    ( /\ TwoAssigns
      /\ ~prev.randomize /\ ~last.randomize
      /\ prev.hashkey = last.hashkey
      /\ SetOf(prev.areas) = SetOf(last.areas) )
    => (prev.raised = last.raised /\ prev.pairs = last.pairs)

\* two deterministic calls under one key on lists that differ in order and
\* in duplication
C3_Witness ==
    /\ TwoAssigns
    /\ ~prev.randomize /\ ~last.randomize
    /\ prev.hashkey = last.hashkey
    /\ SetOf(prev.areas) = SetOf(last.areas)
    /\ prev.areas # last.areas
    /\ Len(prev.areas) # Len(last.areas)
    /\ Len(last.pairs) = 3

\* C4: in deterministic mode, two runs of the program on the same category
\* set return the same pairs
C4_SameAcrossRuns ==
    ( /\ TwoAssigns
      /\ ~prev.randomize /\ ~last.randomize
      /\ SetOf(prev.areas) = SetOf(last.areas) )
    => (prev.raised = last.raised /\ prev.pairs = last.pairs)

\* the category of a raw label by normalized value: trimmed, upper-cased,
\* empty mapped to OTRO
normalized(raw) == orOTRO(upper(strip(raw)))

\* the raw labels of a call: the sheet's cells, or the list passed directly
RawLabels(c) == IF c.fn = "write" THEN SetOf(c.cells) ELSE SetOf(c.areas)

\* C5: labels that differ only in case or surrounding white space are one
\* category: a call returns one pair per normalized value of its raw labels
C5_NormalizedIdentity ==
    (IsAssign(last) /\ last.raised = "") =>
        Len(last.pairs) = Cardinality({normalized(raw) : raw \in RawLabels(last)})

HexChars == {HexDigit[i] : i \in 1..16}

\* "#" followed by six hexadecimal digits
IsHexColor(c) ==
    /\ Len(c) = 7
    /\ CharAt(c, 1) = "#"
    /\ \A i \in 2..7 : CharAt(c, i) \in HexChars

\* the start hue of a call of expand_color_bag
StartHue(c) == IF c.randomize /\ c.seed # None THEN uniform(Random(c.seed, 0)) ELSE base_h

\* C6: expand_color_bag returns at least min_size pairwise distinct
\* six-hex-digit colours, the base palette first, the i-th generated colour
\* having hue start_h + i*137.508, lightness l_steps[i mod 4], saturation 0.70
C6_DistinctBag ==
    last.fn = "expand" =>
        /\ Len(last.bag) >= last.min_size
        /\ Cardinality(SetOf(last.bag)) = Len(last.bag)
        /\ \A i \in 1..Len(last.bag) : IsHexColor(last.bag[i])
        /\ SubSeq(last.bag, 1, 15) = BaseColors
        /\ \A i \in 0..(Len(last.bag) - 16) :
              last.bag[16 + i] = hsl_to_hex((StartHue(last) + 34377 * i) % 90000, 7,
                                            <<55, 50, 60, 45>>[(i % 4) + 1])

\* C7: for min_size <= 15 expand_color_bag returns the base palette itself,
\* and with at most 15 distinct categories every assigned colour is one of
\* the base palette, in either mode
C7_BasePalettePriority ==
    /\ (last.fn = "expand" /\ last.min_size <= 15) => last.bag = BaseColors
    /\ (IsAssign(last) /\ Cardinality(Categories(last.areas)) <= 15) =>
           /\ Colors(last.pairs) \subseteq SetOf(BaseColors)
           /\ SetOf(last.bag) = SetOf(BaseColors)

\* a randomized call on a sheet with four categories has returned
C7_Witness ==
    /\ last.fn = "write"
    /\ last.randomize
    /\ Cardinality(Categories(last.areas)) = 4
    /\ Len(last.pairs) = 4

\* C8: in deterministic mode the bag for a smaller size is a prefix of the
\* bag for a larger size
C8_PrefixStable ==
    ( /\ prev.fn = "expand" /\ last.fn = "expand"
      /\ ~prev.randomize /\ ~last.randomize )
    => /\ prev.min_size < last.min_size => IsPrefix(prev.bag, last.bag)
       /\ last.min_size < prev.min_size => IsPrefix(last.bag, prev.bag)

\* two deterministic expansions that both generate colours
C8_Witness ==
    /\ prev.fn = "expand" /\ last.fn = "expand"
    /\ ~prev.randomize /\ ~last.randomize
    /\ prev.min_size = 17 /\ last.min_size = 20
    /\ Len(prev.bag) = 17 /\ Len(last.bag) = 20

\* the colour assign_colors_to_areas gave to the category of area a
AssignedColor(c, a) ==
    c.pairs[CHOOSE i \in 1..Len(c.sorted) : c.sorted[i] = orOTRO(a)][2]

\* C9: for every course of a written page, the identifier the script builds
\* from the course's area is the identifier declared for its category, and
\* the lookup yields the category's assigned colour
C9_LookupResolves ==
    (last.fn = "write" /\ last.raised = "") =>
        \A i \in 1..Len(last.areas) :
            /\ js_var(last.areas[i]) = var_name(last.areas[i])
            /\ colorForArea(last.pairs, last.areas[i]) = AssignedColor(last, last.areas[i])

\* the sequence xs lists the set S in strictly increasing order
ListsSorted(xs, S) ==
    /\ SetOf(xs) = S
    /\ \A i \in 1..(Len(xs) - 1) : StrLess(xs[i], xs[i + 1])

\* C10: a call returns one pair per distinct category, in sorted category
\* order (none for an empty collection), each identifier being the marker
\* followed by the upper-cased category with the characters outside
\* [A-Z0-9_-] replaced by "_"; categories with equal identifiers all stay
C10_OnePairPerCategory ==
    IsAssign(last) =>
        /\ last.raised = ""
        /\ ListsSorted(last.sorted, Categories(last.areas))
        /\ Len(last.pairs) = Len(last.sorted)
        /\ \A i \in 1..Len(last.pairs) :
              last.pairs[i][1] = "--AREA-" \o re_sub(upper(last.sorted[i]))

\* ---------------------------------------------------------------- C11
\* two calls with the same arguments whose result does not depend on the
\* entropy of an unseeded generator
SameCall(c, d) ==
    /\ c.fn # "none" /\ c.fn = d.fn
    /\ c.cells = d.cells /\ c.areas = d.areas /\ c.min_size = d.min_size
    /\ c.randomize = d.randomize /\ c.seed = d.seed /\ c.hashkey = d.hashkey
    /\ (c.fn = "expand" \/ ~c.randomize \/ c.seed # None)

\* C11: after any sequence of calls of expand_color_bag and
\* assign_colors_to_areas, in any mode, COLOR_BAG still holds the 15 base
\* colours in their order, and a call gives the result the same call gave
\* earlier in the history.
C11_PaletteUnchanged ==
    /\ COLOR_BAG = BaseColors
    /\ SameCall(prev, last) =>
          /\ last.bag = prev.bag
          /\ last.pairs = prev.pairs
          /\ last.raised = prev.raised

\* a seeded randomized assignment that expanded and shuffled its bag, run
\* twice in a row
C11_Witness ==
    /\ SameCall(prev, last)
    /\ last.fn = "assign" /\ last.randomize
    /\ Len(last.bag) > Len(BaseColors)
    /\ ~IsPrefix(BaseColors, last.bag)
    /\ COLOR_BAG = BaseColors

\* ------------------------------------------------------------ the planner
\* A sheet row is <<ID, PRE1, PRE2, ...>>; its LEVEL and NAME are valid.
\* prereq of a row (lines 179-183): the stripped, non-empty PRE cells
RECURSIVE prereq(_, _)
prereq(r, pc) ==
    IF pc > Len(r) THEN <<>>
    ELSE LET val == strip(r[pc])
         IN (IF val # "" THEN <<val>> ELSE <<>>) \o prereq(r, pc + 1)

\* build_courses (lines 171-191): rows without an ID are skipped
RECURSIVE build_courses(_, _)
build_courses(df, k) ==
    IF k > Len(df) THEN <<>>
    ELSE LET cid == strip(df[k][1])
         IN (IF cid = "" THEN <<>>
             ELSE <<[id |-> cid, prereq |-> prereq(df[k], 2)]>>)
            \o build_courses(df, k + 1)

\* xs.every(p => progress.has(p)), from position k
RECURSIVE every(_, _, _)
every(xs, k, progress) ==
    IF k > Len(xs) THEN TRUE
    ELSE IF xs[k] \in progress THEN every(xs, k + 1, progress)
    ELSE FALSE

\* xs.some(p => progress.has(p)), from position k
RECURSIVE some(_, _, _)
some(xs, k, progress) ==
    IF k > Len(xs) THEN FALSE
    ELSE IF xs[k] \in progress THEN TRUE
    ELSE some(xs, k + 1, progress)

\* a course counted as unlocked as soon as one prerequisite is approved
isUnlocked_some(c, progress) ==
    c.id \notin progress /\ some(c.prereq, 1, progress)

\* isUnlocked(c, progress) (lines 341-343)
isUnlocked(c, progress) ==
    c.id \notin progress /\ every(c.prereq, 1, progress)

\* canToggle of the click handler (line 366)
canToggle(c, progress) == c.id \in progress \/ isUnlocked(c, progress)

\* COURSES.find(x => x.id === id): the first course with this id
find(courses, id) ==
    courses[CHOOSE i \in 1..Len(courses) :
                /\ courses[i].id = id
                /\ \A j \in 1..(i - 1) : courses[j].id # id]

\* update() (lines 380-395): the class of every .course element; the
\* element of course i carries dataset.id = courses[i].id (line 356)
update(courses, progress) ==
    [i \in 1..Len(courses) |->
        LET c == find(courses, courses[i].id)
        IN IF c.id \in progress THEN "done"
           ELSE IF isUnlocked(c, progress) THEN "unlock"
           ELSE "locked"] \o <<>>

\* runTests() (lines 508-519), on its own empty progress
runTests(courses) ==
    LET progress == {}
        Unlocked(c) == isUnlocked(c, progress)
        NoPre(c) == Len(c.prereq) = 0
        unlocked == SelectSeq(courses, Unlocked)
        should == SelectSeq(courses, NoPre)
    IN IF /\ Len(unlocked) = Len(should)
          /\ \A u \in 1..Len(unlocked) :
                \E q \in 1..Len(should) : should[q].id = unlocked[u].id
       THEN "OK Inicial unlocked = sin PRE"
       ELSE "FAIL Inicial: count mismatch"

\* the sheets whose pages are explored
Catalog ==
    << <<"A">>, <<"B", "A">>, <<"C", "A">>, <<"D", "B", "C">>, <<"E", "">>,
       <<"F", "E", "D">>, <<"G", "F", "A">>, <<"H", "G", "B">> >>

Sheets ==
    { SubSeq(Catalog, 1, Min2(MaxCourses, Len(Catalog))),
      << <<" A ">>, <<"B", "A ", " ">>, <<"C", "Z">>, <<"H", "B", "C">>, <<"", "A">>,
         <<"G", "G">> >>,
      << <<"P", "Q">>, <<"Q", "P">>, <<"R">>, <<"T", "R", "P">> >> }

\* the page of a sheet, opened with an empty localStorage: render() and
\* runTests() have run
PageInit ==
    /\ COLOR_BAG = BaseColors
    /\ last = NoCall
    /\ prev = NoCall
    /\ \E df \in Sheets : COURSES = build_courses(df, 1)
    /\ localStorage = {}
    /\ classList = update(COURSES, {})
    /\ tests = runTests(COURSES)

\* the click handler of the element of course i (lines 364-370)
Click(i) ==
    LET c == COURSES[i]
        progress == localStorage
    IN /\ canToggle(c, progress)
       /\ localStorage' = IF c.id \in progress THEN progress \ {c.id}
                          ELSE progress \cup {c.id}
       /\ classList' = update(COURSES, localStorage')
       /\ UNCHANGED <<COURSES, tests>>
       /\ UNCHANGED color_vars

\* btnReset (line 500): save(new Set()); render()
Reset ==
    /\ localStorage' = {}
    /\ classList' = update(COURSES, localStorage')
    /\ UNCHANGED <<COURSES, tests>>
    /\ UNCHANGED color_vars

PageNext ==
    \/ \E i \in 1..Len(COURSES) : Click(i)
    \/ Reset

PageSpec == PageInit /\ [][PageNext]_vars

\* ---------------------------------------------------------------- C12
\* the ids of a list of prerequisites
Ids(xs) == {xs[k] : k \in 1..Len(xs)}

\* C12: isUnlocked(c, progress) holds exactly when c is not in progress and
\* every prerequisite id of c is in progress; with empty progress the
\* unlocked courses are the courses without prerequisites, which is what
\* the page's own test reports.
C12_UnlockedExactly ==
    /\ \A i \in 1..Len(COURSES) :
          isUnlocked(COURSES[i], localStorage)
             <=> (COURSES[i].id \notin localStorage
                  /\ Ids(COURSES[i].prereq) \subseteq localStorage)
    /\ localStorage = {} =>
          {i \in 1..Len(COURSES) : isUnlocked(COURSES[i], localStorage)}
             = {i \in 1..Len(COURSES) : COURSES[i].prereq = <<>>}
    /\ tests = "OK Inicial unlocked = sin PRE"

\* some courses are approved, a course with two prerequisites is unlocked
\* and another course is locked with one of its two prerequisites approved
C12_Witness ==
    /\ localStorage # {}
    /\ \E i \in 1..Len(COURSES) :
          /\ Len(COURSES[i].prereq) = 2
          /\ isUnlocked(COURSES[i], localStorage)
    /\ \E i \in 1..Len(COURSES) :
          /\ COURSES[i].id \notin localStorage
          /\ ~isUnlocked(COURSES[i], localStorage)
          /\ Ids(COURSES[i].prereq) \cap localStorage # {}

\* ---------------------------------------------------------------- C13
\* the colour the deterministic probe gives the i-th category of call c:
\* the first colour, going forward from the start index and wrapping, that no
\* earlier category holds
FirstUnused(c, i) ==
    LET n == Len(c.bag)
        idx == start_index(c.hashkey, c.sorted[i], n)
        taken == {c.pairs[j][2] : j \in 1..(i - 1)}
        free == {step \in 0..(n - 1) : c.bag[((idx + step) % n) + 1] \notin taken}
    IN IF free = {} THEN ""
       ELSE c.bag[((idx + (CHOOSE step \in free : \A t \in free : step <= t)) % n) + 1]

\* C13: in deterministic mode the probe of every category, taken in sorted
\* order, finds an unused colour within len(bag) steps and assigns the first
\* one; the call never fails on a category without a colour.
C13_ProbeAlwaysFinds ==
    (IsAssign(last) /\ ~last.randomize) =>
        /\ last.raised = ""
        /\ Len(last.pairs) = Len(last.sorted)
        /\ \A i \in 1..Len(last.sorted) :
              /\ FirstUnused(last, i) # ""
              /\ last.pairs[i][2] = FirstUnused(last, i)

\* ---------------------------------------------------------------- C14
\* C14: from empty progress, after any clicks and resets, every approved
\* course has all its prerequisites approved.
C14_PrerequisiteClosed ==
    \A i \in 1..Len(COURSES) :
        COURSES[i].id \in localStorage =>
            Ids(COURSES[i].prereq) \subseteq localStorage

====
